---- MODULE Spec2Model ----
(***************************************************************************)
(* TaskMasterPy: the workflow execution engine.                            *)
(*                                                                         *)
(* One Workflow object (taskmaster/core/workflow.py) with its registered   *)
(* actions (taskmaster/actions/base.py), assembled by add_action and       *)
(* add_dependency and executed by run().  run() is modelled statement by   *)
(* statement as a frame on the calling thread's stack, so that a call made *)
(* from inside an action's execute (a nested frame) and a call made by a   *)
(* second thread (a trigger's background thread) are both calls of the     *)
(* same code.                                                              *)
(***************************************************************************)
EXTENDS Integers, Sequences, FiniteSets, TLC

\* ------------------------------------------------------------------ bounds
MaxDeps == 3      \* dependency edges added over the workflow's life
MaxCalls == 2     \* run() calls made in one behaviour
MaxDepth == 2     \* run() frames on one thread's stack (1 = no nested call)
ExecCap == 2      \* cap on the per-run count of execute invocations
MaxCallbacks == 3 \* callbacks registered on the trigger
MaxLoops == 2     \* background threads, and scheduler jobs, of one trigger

\* The action objects that exist; their ids (uuid strings in the code) in the
\* order in which the objects are constructed
Acts == {"a1", "a2", "a3"}
ActionNames == <<"a1", "a2", "a3", "none">>
Threads == {"t1", "t2"}
MainThread == "t1"
Values == {"v1", "v2"}
EventArgs == {"None", "e1"}
NoAction == "none"

VARIABLES
  actions,       \* Workflow.actions: the registered action ids, in insertion order
  dependencies,  \* BaseAction.dependencies, per action: a list of action ids
  status,        \* BaseAction.status, per action
  result,        \* BaseAction.result, per action ("None" when unset)
  error,         \* BaseAction.error, per action ("None" when unset)
  context,       \* Workflow.context: a mapping from key to value
  is_running,    \* Workflow.is_running
  frames,        \* per thread: the stack of run() frames, innermost last
  last,          \* per thread: how the thread's most recent call ended
  execCount,     \* per action: execute invocations since the last pass began
  raised,        \* the actions whose execute raised since the last pass began
  calls,         \* run() calls made so far
  behaviour,     \* per action: what its execute does ("any": it may differ
                 \* from one execution to the next)
  prev,          \* the statuses and Context the last ended pass left (kept
                 \* when prev.on)
  callbacks,     \* BaseTrigger.callbacks: the registered callbacks, in order
  firing,        \* the fire() call under way on the trigger, if any
  invoked,       \* the callback invocations of the latest fire(), in order
  fire_out,      \* how the latest fire() ended
  loops,         \* per trigger: its background threads, those between two
                 \* iterations of the loop (idle) and those past the
                 \* is_active test of an iteration (work)
  jobs,          \* per trigger: the jobs calling its _on_schedule in the
                 \* schedule module's default scheduler
  workflows,     \* WorkflowRunner.workflows: the registered ids, in order
  active_workflows,  \* WorkflowRunner.active_workflows: the active ids
  trig_active,   \* BaseTrigger.is_active, per trigger
  trig_job,      \* TimeTrigger.job is set, per trigger
  trig_valid,    \* per trigger: its schedule string parses
  wf_context,    \* Workflow.context, per workflow the runner handles
  rlast,         \* the runner's most recent call: operation, id, outcome
  stopped        \* the ids whose latest start/stop call is a stop_workflow
                 \* that has returned

engineVars == <<actions, dependencies, status, result, error, context,
                is_running, frames, last, execCount, raised, calls>>
triggerVars == <<callbacks, firing, invoked, fire_out, loops, jobs>>
runnerVars == <<workflows, active_workflows, trig_active, trig_job,
                trig_valid, wf_context, rlast, stopped>>
otherVars == <<behaviour, triggerVars, runnerVars>>
vars == <<engineVars, prev, otherVars>>

\* ----------------------------------------------------------------- helpers
Range(s) == {s[i] : i \in DOMAIN s}
Registered == Range(actions)
Deps(a) == Range(dependencies[a])
TotalDeps == LET RECURSIVE Sum(_)
                 Sum(S) == IF S = {} THEN 0
                           ELSE LET x == CHOOSE y \in S : TRUE
                                IN Len(dependencies[x]) + Sum(S \ {x})
             IN Sum(Acts)
Top(t) == frames[t][Len(frames[t])]
Idle == \A t \in Threads : frames[t] = <<>>
Push(t, f) == [frames EXCEPT ![t] = Append(@, f)]
Pop(t) == [frames EXCEPT ![t] = SubSeq(@, 1, Len(@) - 1)]
SetTop(t, f) == [frames EXCEPT ![t] = [@ EXCEPT ![Len(@)] = f]]
\* rounds: the evaluations of the ready set (line 122) this call has made
NewFrame(ev) ==
  [pc |-> "guard", ev |-> ev, ready |-> <<>>, cur |-> NoAction, rounds |-> 0]
\* the count of evaluations is followed up to here
RoundCap == Cardinality(Acts) + 2

\* `event_data or {}`: None gives the empty mapping
OrEmpty(ev) == IF ev = "None" THEN "empty" ELSE ev

\* ------------------------------------------------- BaseAction, Workflow code
can_execute_Always(a) == TRUE

can_execute_FailedCounts(a) ==
  \A i \in DOMAIN dependencies[a] :
    status[dependencies[a][i]] \in {"completed", "failed"}

\* BaseAction.can_execute
can_execute(a) ==
  \A i \in DOMAIN dependencies[a] : status[dependencies[a][i]] = "completed"

IsReady_CompletedToo(a) ==
  status[a] \in {"pending", "completed"} /\ can_execute(a)

IsReady_NoPendingCheck(a) == can_execute(a)

\* Workflow.get_ready_actions: the test applied to each registered action
IsReady(a) ==
  IF \A b \in Registered : Len(dependencies[b]) = 0
  THEN status[a] = "pending"
  ELSE status[a] = "pending" /\ can_execute(a)

RECURSIVE Reverse(_)
Reverse(q) == IF q = <<>> THEN <<>> ELSE Append(Reverse(Tail(q)), Head(q))

get_ready_actions_Reversed == Reverse(SelectSeq(actions, IsReady))

\* lines 87-94: a list built by iterating self.actions.values(), a dict, so
\* in the order of the add_action calls
get_ready_actions == SelectSeq(actions, IsReady)

GuardRejects_Never == FALSE

\* lines 105-107: the re-entrancy guard
GuardRejects == is_running

SeedContext_KeepOld(ev) ==
  [k \in DOMAIN context \cup {"event_data"} |->
     IF k = "event_data" THEN OrEmpty(ev) ELSE context[k]]

\* line 110
SeedContext(ev) == [k \in {"event_data"} |-> OrEmpty(ev)]

ResetOf_NoStatus(a) ==
  [status |-> status[a], result |-> "None", error |-> "None"]

ResetOf_StatusOnly(a) ==
  [status |-> "pending", result |-> result[a], error |-> error[a]]

\* lines 114-117, for one action
ResetOf(a) == [status |-> "pending", result |-> "None", error |-> "None"]

EmptyReadyOutcome_NoRaise == "returned"

\* lines 122-130: how the loop ends when the ready set is empty
EmptyReadyOutcome ==
  IF \A a \in Registered : status[a] \in {"completed", "failed"}
  THEN "returned"
  ELSE IF \E a \in Registered : status[a] = "pending"
       THEN "CircularError"
       ELSE "returned"

RunningAfterExit_NoFinally(kind) == kind = "CircularError"

\* lines 143-144: is_running once run() has left its try block
RunningAfterExit(kind) == FALSE

StoreResult_Drops(ctx, a, v) == ctx

\* line 136
StoreResult(ctx, a, v) ==
  [k \in DOMAIN ctx \cup {a} |-> IF k = a THEN v ELSE ctx[k]]

\* ------------------------------------------------------------------- Init
\* The workflows the runner handles, their triggers (Workflow.triggers, in
\* add_trigger order) and the callbacks that exist
Wids == {"w1", "w2"}
\* the ids a runner call may name: those of the workflows, and one that no
\* workflow has
Ids == Wids \cup {"w3"}
\* the workflow whose actions and run() the model follows step by step; the
\* other one has no action
EngineWf == "w1"
Trigs == {"g1", "g2", "g3"}
WfTriggers(w) == IF w = "w1" THEN <<"g1", "g2">> ELSE <<"g3">>
\* the workflow whose _on_trigger_fired is registered on trigger g
WfOf(g) == CHOOSE w \in Wids : \E i \in 1..Len(WfTriggers(w)) : WfTriggers(w)[i] = g
\* the thread of a trigger's background loop, when the model follows the
\* run() it starts
LoopThread == "t2"
Callbacks == {"c1", "c2"}

NoPrev(on) ==
  [on |-> on, ended |-> FALSE, status |-> [a \in Acts |-> "pending"],
   context |-> <<>>, order |-> <<>>, log |-> <<>>]

\* the executions of the pass under way, in order, each with the Context the
\* action is given (kept when prev.on)
Logged(a) ==
  IF prev.on THEN [prev EXCEPT !.log = Append(@, [a |-> a, sees |-> context])]
  ELSE prev

\* BaseTrigger.__init__
TriggerInit ==
  /\ callbacks = <<>>
  /\ firing = [active |-> FALSE, pos |-> 0, ev |-> "empty"]
  /\ invoked = <<>>
  /\ fire_out = "none"
  /\ loops = [g \in Trigs |-> [idle |-> 0, work |-> 0]]
  /\ jobs = [g \in Trigs |-> 0]

\* WorkflowRunner.__init__, with the workflows and triggers as constructed
RunnerInit ==
  /\ workflows = <<>>
  /\ active_workflows = <<>>
  /\ trig_active = [g \in Trigs |-> FALSE]
  /\ trig_job = [g \in Trigs |-> FALSE]
  /\ trig_valid = [g \in Trigs |-> TRUE]
  /\ wf_context = [w \in Wids |-> <<>>]
  /\ rlast = [op |-> "none", id |-> "none", out |-> "none", calls |-> <<>>]
  /\ stopped = {}

Init ==
  /\ actions = <<>>
  /\ dependencies = [a \in Acts |-> <<>>]
  /\ status = [a \in Acts |-> "pending"]
  /\ result = [a \in Acts |-> "None"]
  /\ error = [a \in Acts |-> "None"]
  /\ context = <<>>
  /\ is_running = FALSE
  /\ frames = [t \in Threads |-> <<>>]
  /\ last = [t \in Threads |-> "none"]
  /\ execCount = [a \in Acts |-> 0]
  /\ raised = {}
  /\ calls = 0
  /\ behaviour = [a \in Acts |-> "any"]
  /\ prev = NoPrev(FALSE)
  /\ TriggerInit
  /\ RunnerInit

\* ---------------------------------------------------------------- assembly
\* The id of a newly constructed action (BaseAction.__init__ draws a fresh
\* uuid): the first name not yet registered
FreshId == ActionNames[Len(actions) + 1]

\* Workflow.add_action: a dict store, so adding a registered id changes
\* nothing; the action added is a registered one or a new object
AddAction(a) ==
  /\ Idle
  /\ a \in Registered \/ a = FreshId
  /\ actions' = IF a \in Registered THEN actions ELSE Append(actions, a)
  /\ UNCHANGED <<dependencies, status, result, error, context, is_running,
                 frames, last, execCount, raised, calls>>
  /\ UNCHANGED <<prev, otherVars>>

BothRegistered_FirstOnly(a, b) == a \in Registered

\* Workflow.add_dependency line 65, negated: both ids are keys of self.actions
BothRegistered(a, b) == a \in Registered /\ b \in Registered

\* Workflow.add_dependency: ValueError, or BaseAction.add_dependency appends
\* the edge (no look at the edges there are)
AddDependency(a, b) ==
  /\ Idle
  /\ IF ~BothRegistered(a, b)
     THEN /\ last' = [last EXCEPT ![MainThread] = "DependencyError"]
          /\ UNCHANGED dependencies
     ELSE /\ TotalDeps < MaxDeps
          /\ dependencies' = [dependencies EXCEPT ![a] = Append(@, b)]
          /\ UNCHANGED last
  /\ UNCHANGED <<actions, status, result, error, context, is_running,
                 frames, execCount, raised, calls>>
  /\ UNCHANGED <<prev, otherVars>>

\* --------------------------------------------------------------- run()
\* A call of Workflow.run(ev) by thread t: from outside (run_workflow_now,
\* _on_trigger_fired) when the thread has no frame, or from inside the
\* execute of the action the thread is running.
Enter(t, ev) ==
  /\ calls < MaxCalls
  /\ \/ frames[t] = <<>>
     \/ /\ frames[t] # <<>>
        /\ Top(t).pc = "execute"
        /\ Len(frames[t]) < MaxDepth
  /\ frames' = Push(t, NewFrame(ev))
  /\ calls' = calls + 1
  /\ UNCHANGED <<actions, dependencies, status, result, error, context,
                 is_running, last, execCount, raised>>

RunCall(t, ev) ==
  /\ Enter(t, ev)
  /\ UNCHANGED <<prev, otherVars>>

\* lines 105-107
Guard(t) ==
  /\ frames[t] # <<>>
  /\ Top(t).pc = "guard"
  /\ IF GuardRejects
     THEN /\ frames' = Pop(t)
          /\ last' = [last EXCEPT ![t] = "rejected"]
     ELSE /\ frames' = SetTop(t, [Top(t) EXCEPT !.pc = "begin"])
          /\ UNCHANGED last
  /\ UNCHANGED <<actions, dependencies, status, result, error, context,
                 is_running, execCount, raised, calls>>
  /\ UNCHANGED <<prev, otherVars>>

\* lines 109-110
Begin(t) ==
  /\ frames[t] # <<>>
  /\ Top(t).pc = "begin"
  /\ is_running' = TRUE
  /\ context' = SeedContext(Top(t).ev)
  /\ execCount' = [a \in Acts |-> 0]
  /\ raised' = {}
  /\ frames' = SetTop(t, [Top(t) EXCEPT !.pc = "reset"])
  /\ prev' = [prev EXCEPT !.log = <<>>]
  /\ UNCHANGED <<actions, dependencies, status, result, error, last, calls>>
  /\ UNCHANGED otherVars

\* lines 113-117
Reset(t) ==
  /\ frames[t] # <<>>
  /\ Top(t).pc = "reset"
  /\ status' = [a \in Acts |-> IF a \in Registered THEN ResetOf(a).status ELSE status[a]]
  /\ result' = [a \in Acts |-> IF a \in Registered THEN ResetOf(a).result ELSE result[a]]
  /\ error' = [a \in Acts |-> IF a \in Registered THEN ResetOf(a).error ELSE error[a]]
  /\ frames' = SetTop(t, [Top(t) EXCEPT !.pc = "loop"])
  /\ UNCHANGED <<actions, dependencies, context, is_running, last,
                 execCount, raised, calls>>
  /\ UNCHANGED <<prev, otherVars>>

\* lines 120-130 and, when the loop is left, lines 142-144
Loop(t) ==
  /\ frames[t] # <<>>
  /\ Top(t).pc = "loop"
  /\ LET ready == get_ready_actions
     IN IF ready = <<>>
        THEN /\ frames' = Pop(t)
             /\ last' = [last EXCEPT ![t] = EmptyReadyOutcome]
             /\ is_running' = RunningAfterExit(EmptyReadyOutcome)
             /\ prev' = IF prev.on /\ Len(frames[t]) = 1
                        THEN [prev EXCEPT !.ended = TRUE, !.status = status,
                                          !.context = context,
                                          !.order = prev.log]
                        ELSE prev
        ELSE /\ frames' = SetTop(t, [Top(t) EXCEPT
                                       !.pc = "round", !.ready = ready,
                                       !.rounds = IF @ < RoundCap THEN @ + 1 ELSE @])
             /\ UNCHANGED <<last, is_running, prev>>
  /\ UNCHANGED <<actions, dependencies, status, result, error, context,
                 execCount, raised, calls>>
  /\ UNCHANGED otherVars

\* line 132, line 135 and BaseAction.run lines 71-72: the next ready action
\* is taken and marked running; its execute begins
ActionStart(t) ==
  /\ frames[t] # <<>>
  /\ Top(t).pc = "round"
  /\ Top(t).ready # <<>>
  /\ LET a == Head(Top(t).ready)
     IN /\ status' = [status EXCEPT ![a] = "running"]
        /\ execCount' = [execCount EXCEPT ![a] = IF @ < ExecCap THEN @ + 1 ELSE @]
        /\ frames' = SetTop(t, [Top(t) EXCEPT !.pc = "execute", !.cur = a,
                                              !.ready = Tail(@)])
        /\ prev' = Logged(a)
  /\ UNCHANGED <<actions, dependencies, result, error, context, is_running,
                 last, raised, calls>>
  /\ UNCHANGED otherVars

BaseRun_Swallows(a, ok, v) ==
  IF ok
  THEN [status |-> "completed", result |-> v, error |-> error[a],
        raises |-> FALSE, returns |-> v]
  ELSE [status |-> "failed", result |-> result[a], error |-> "Exception",
        raises |-> FALSE, returns |-> "None"]

BaseRun_LeavesRunning(a, ok, v) ==
  IF ok
  THEN [status |-> "completed", result |-> v, error |-> error[a],
        raises |-> FALSE, returns |-> v]
  ELSE [status |-> status[a], result |-> result[a], error |-> "Exception",
        raises |-> TRUE, returns |-> "None"]

\* BaseAction.run lines 73-80, once execute has returned v (ok) or raised an
\* Exception: the action's fields, and what run hands to its caller
BaseRun(a, ok, v) ==
  IF ok
  THEN [status |-> "completed", result |-> v, error |-> error[a],
        raises |-> FALSE, returns |-> v]
  ELSE [status |-> "failed", result |-> result[a], error |-> "Exception",
        raises |-> TRUE, returns |-> "None"]

\* what the execute of action a may do: anything, or what `behaviour` fixes
Behaves(a, ok, v) ==
  \/ behaviour[a] = "any"
  \/ IF ok THEN behaviour[a] = v ELSE behaviour[a] = "raise"

\* BaseAction.run lines 74-80 and Workflow.run lines 135-140: execute returns
\* v, or raises an Exception; a value run returns is stored in the Context, an
\* exception it raises is caught and logged
ActionFinish(t, ok, v) ==
  /\ frames[t] # <<>>
  /\ Top(t).pc = "execute"
  /\ Behaves(Top(t).cur, ok, v)
  /\ LET a == Top(t).cur
         r == BaseRun(a, ok, v)
     IN /\ status' = [status EXCEPT ![a] = r.status]
        /\ result' = [result EXCEPT ![a] = r.result]
        /\ error' = [error EXCEPT ![a] = r.error]
        /\ context' = IF r.raises THEN context
                      ELSE StoreResult(context, a, r.returns)
        /\ raised' = IF ok THEN raised ELSE raised \cup {a}
        /\ frames' = SetTop(t, [Top(t) EXCEPT
                                  !.pc = IF Top(t).ready = <<>> THEN "loop" ELSE "round",
                                  !.cur = NoAction])
  /\ UNCHANGED <<actions, dependencies, is_running, last, execCount, calls>>
  /\ UNCHANGED <<prev, otherVars>>

RunStep(t) ==
  \/ Guard(t) \/ Begin(t) \/ Reset(t) \/ Loop(t) \/ ActionStart(t)
  \/ \E v \in Values : ActionFinish(t, TRUE, v)
  \/ ActionFinish(t, FALSE, "None")

\* ------------------------------------------------------------- BaseTrigger
\* BaseTrigger.register_callback: a list append (one callback may be
\* registered more than once)
RegisterCallback(c) ==
  /\ ~firing.active
  /\ Len(callbacks) < MaxCallbacks
  /\ callbacks' = Append(callbacks, c)
  /\ UNCHANGED <<firing, invoked, fire_out>>
  /\ UNCHANGED <<engineVars, prev, behaviour, runnerVars, loops, jobs>>

\* BaseTrigger.fire line 46: event_data = event_data or {}
FireCall(ev) ==
  /\ ~firing.active
  /\ firing' = [active |-> TRUE, pos |-> 1, ev |-> OrEmpty(ev)]
  /\ invoked' = <<>>
  /\ fire_out' = "running"
  /\ UNCHANGED callbacks
  /\ UNCHANGED <<engineVars, prev, behaviour, runnerVars, loops, jobs>>

\* where fire goes on once the callback at position pos has returned (ok) or
\* raised: lines 47-48 are a plain loop, an exception leaves fire
AfterCallback(pos, ok) ==
  IF ok THEN [active |-> TRUE, pos |-> pos + 1, out |-> "running"]
  ELSE [active |-> FALSE, pos |-> pos, out |-> "raised"]

\* lines 47-48: the next callback is called with the trigger and event_data
\* (Workflow._on_trigger_fired returns what run() returns or raises what it
\* raises)
FireInvoke(ok) ==
  /\ firing.active
  /\ firing.pos <= Len(callbacks)
  /\ invoked' = Append(invoked, [cb |-> callbacks[firing.pos], ev |-> firing.ev])
  /\ LET n == AfterCallback(firing.pos, ok)
     IN /\ firing' = [firing EXCEPT !.active = n.active, !.pos = n.pos]
        /\ fire_out' = n.out
  /\ UNCHANGED callbacks
  /\ UNCHANGED <<engineVars, prev, behaviour, runnerVars, loops, jobs>>

\* the loop is over: fire returns
FireReturn ==
  /\ firing.active
  /\ firing.pos > Len(callbacks)
  /\ firing' = [firing EXCEPT !.active = FALSE]
  /\ fire_out' = "returned"
  /\ UNCHANGED <<callbacks, invoked>>
  /\ UNCHANGED <<engineVars, prev, behaviour, runnerVars, loops, jobs>>

\* ----------------------------------------------------------- WorkflowRunner
\* dict.pop(key) on a dict kept as the sequence of its keys
Remove(seq, x) == SelectSeq(seq, LAMBDA y : y # x)
Min(i, j) == IF i < j THEN i ELSE j

Known_Constructed(id) == id \in Wids

\* runner.py lines 57 and 94, negated: workflow_id in self.workflows
Known(id) == id \in Range(workflows)

\* the record of a runner call: the trigger methods it called, how it ended
Record(op, id, out, cs) == [op |-> op, id |-> id, out |-> out, calls |-> cs]
CallsOf(fn, gs) == [i \in 1..Len(gs) |-> [fn |-> fn, g |-> gs[i]]]

\* WorkflowRunner.register_workflow: a dict store, the key keeps its place
RegisterWorkflow(w) ==
  /\ Idle
  /\ workflows' = IF w \in Range(workflows) THEN workflows
                  ELSE Append(workflows, w)
  /\ rlast' = Record("register", w, "returned", <<>>)
  /\ UNCHANGED <<active_workflows, trig_active, trig_job, trig_valid,
                 wf_context, stopped>>
  /\ UNCHANGED <<engineVars, prev, behaviour, triggerVars>>

\* the position of the first trigger of w whose activate raises (TimeTrigger
\* and CronTrigger.activate raise ValueError when the schedule string does
\* not parse), past the end when none does
RECURSIVE FirstInvalidFrom(_, _)
FirstInvalidFrom(gs, i) ==
  IF i > Len(gs) \/ ~trig_valid[gs[i]] THEN i ELSE FirstInvalidFrom(gs, i + 1)
FirstInvalid(w) == FirstInvalidFrom(WfTriggers(w), 1)

ActivateUpTo_First(w) == 1

\* Workflow.activate lines 148-149: the triggers it calls activate on, the
\* one whose activate raises being the last
ActivateUpTo(w) == Min(FirstInvalid(w), Len(WfTriggers(w)))

ActivateRaises(w) == FirstInvalid(w) <= Len(WfTriggers(w))
Activated(w) == SubSeq(WfTriggers(w), 1, ActivateUpTo(w))

\* WorkflowRunner.start_workflow: each TimeTrigger.activate sets is_active
\* (line 38) and then raises, or sets self.job (line 68) and starts a thread
StartWorkflow(id) ==
  /\ Idle
  /\ IF ~Known(id)
     THEN /\ rlast' = Record("start", id, "NotFound", <<>>)
          /\ UNCHANGED <<active_workflows, trig_active, trig_job>>
     ELSE /\ trig_active' = [g \in Trigs |->
                               IF g \in Range(Activated(id)) THEN TRUE
                               ELSE trig_active[g]]
          /\ trig_job' = [g \in Trigs |->
                            IF g \in Range(Activated(id)) /\ trig_valid[g] THEN TRUE
                            ELSE trig_job[g]]
          /\ IF ActivateRaises(id)
             THEN /\ rlast' = Record("start", id, "ActivateError",
                                     CallsOf("activate", Activated(id)))
                  /\ UNCHANGED active_workflows
             ELSE /\ rlast' = Record("start", id, "returned",
                                     CallsOf("activate", Activated(id)))
                  /\ active_workflows' =
                       IF id \in Range(active_workflows) THEN active_workflows
                       ELSE Append(active_workflows, id)
  /\ stopped' = stopped \ {id}
  /\ UNCHANGED <<workflows, trig_valid, wf_context>>
  /\ UNCHANGED <<engineVars, prev, behaviour, triggerVars>>

StopApplies_Registered(id) == id \in Range(workflows)

\* stop_workflow line 74, negated
StopApplies(id) == id \in Range(active_workflows)

Stopped_KeepsActive(id) ==
  [active |-> active_workflows,
   is_active |-> [g \in Trigs |->
                    IF g \in Range(WfTriggers(id)) THEN FALSE ELSE trig_active[g]],
   job |-> [g \in Trigs |->
              IF g \in Range(WfTriggers(id)) THEN FALSE ELSE trig_job[g]],
   calls |-> CallsOf("deactivate", WfTriggers(id))]

\* what stop_workflow lines 78-79 do: the id leaves the active set, then
\* Workflow.deactivate calls deactivate on each trigger (TimeTrigger.deactivate
\* cancels the job if there is one, clears it and clears is_active)
Stopped(id) ==
  [active |-> Remove(active_workflows, id),
   is_active |-> [g \in Trigs |->
                    IF g \in Range(WfTriggers(id)) THEN FALSE ELSE trig_active[g]],
   job |-> [g \in Trigs |->
              IF g \in Range(WfTriggers(id)) THEN FALSE ELSE trig_job[g]],
   calls |-> CallsOf("deactivate", WfTriggers(id))]

\* WorkflowRunner.stop_workflow
StopWorkflow(id) ==
  /\ Idle
  /\ IF ~StopApplies(id)
     THEN /\ rlast' = Record("stop", id, "returned", <<>>)
          /\ UNCHANGED <<active_workflows, trig_active, trig_job>>
     ELSE /\ active_workflows' = Stopped(id).active
          /\ trig_active' = Stopped(id).is_active
          /\ trig_job' = Stopped(id).job
          /\ rlast' = Record("stop", id, "returned", Stopped(id).calls)
  /\ stopped' = stopped \cup ({id} \cap Wids)
  /\ UNCHANGED <<workflows, trig_valid, wf_context>>
  /\ UNCHANGED <<engineVars, prev, behaviour, triggerVars>>

UnregisterStops_Never(id) == FALSE

\* unregister_workflow line 41
UnregisterStops(id) == id \in Range(active_workflows)

\* WorkflowRunner.unregister_workflow: stop_workflow when the id is active,
\* then the id is popped from the registry when it is there
UnregisterWorkflow(id) ==
  /\ Idle
  /\ IF UnregisterStops(id)
     THEN /\ active_workflows' = Stopped(id).active
          /\ trig_active' = Stopped(id).is_active
          /\ trig_job' = Stopped(id).job
          /\ rlast' = Record("unregister", id, "returned", Stopped(id).calls)
          /\ stopped' = stopped \cup {id}
     ELSE /\ rlast' = Record("unregister", id, "returned", <<>>)
          /\ UNCHANGED <<active_workflows, trig_active, trig_job, stopped>>
  /\ workflows' = Remove(workflows, id)
  /\ UNCHANGED <<trig_valid, wf_context>>
  /\ UNCHANGED <<engineVars, prev, behaviour, triggerVars>>

\* WorkflowRunner.run_workflow_now: ValueError for an id not in the registry;
\* otherwise Workflow.run(event_data), followed step by step for EngineWf and
\* taken in one step for the workflow without actions (lines 105-130, 142-144
\* of run: the Context is seeded, nothing is ready or pending)
RunWorkflowNow(id, ev) ==
  /\ Idle
  /\ IF ~Known(id)
     THEN /\ rlast' = Record("run_now", id, "NotFound", <<>>)
          /\ UNCHANGED <<engineVars, wf_context>>
     ELSE IF id = EngineWf
          THEN /\ Enter(MainThread, ev)
               /\ rlast' = Record("run_now", id, "called", <<>>)
               /\ UNCHANGED wf_context
          ELSE /\ wf_context' = [wf_context EXCEPT ![id] = SeedContext(ev)]
               /\ rlast' = Record("run_now", id, "returned", <<>>)
               /\ UNCHANGED engineVars
  /\ UNCHANGED <<workflows, active_workflows, trig_active, trig_job,
                 trig_valid, stopped>>
  /\ UNCHANGED <<prev, behaviour, triggerVars>>

\* the triggers of the workflows ws, workflow after workflow
RECURSIVE TriggersOf(_)
TriggersOf(ws) ==
  IF ws = <<>> THEN <<>> ELSE WfTriggers(Head(ws)) \o TriggersOf(Tail(ws))
RECURSIVE ActivatedOf(_)
ActivatedOf(ws) ==
  IF ws = <<>> THEN <<>> ELSE Activated(Head(ws)) \o ActivatedOf(Tail(ws))

\* start_all_workflows lines 103-105: the registered workflows that are not
\* active, in registry order, up to the first whose start raises
RECURSIVE UpToFailing(_)
UpToFailing(ws) ==
  IF ws = <<>> THEN <<>>
  ELSE IF ActivateRaises(Head(ws)) THEN <<Head(ws)>>
  ELSE <<Head(ws)>> \o UpToFailing(Tail(ws))
StartAllCalls ==
  UpToFailing(SelectSeq(workflows, LAMBDA w : w \notin Range(active_workflows)))

\* WorkflowRunner.start_all_workflows: start_workflow on each of them; the
\* exception of a failing start leaves the loop
StartAllWorkflows ==
  /\ Idle
  /\ LET ws == StartAllCalls
         gs == ActivatedOf(ws)
         failed == \E i \in 1..Len(ws) : ActivateRaises(ws[i])
     IN /\ trig_active' = [g \in Trigs |->
                             IF g \in Range(gs) THEN TRUE ELSE trig_active[g]]
        /\ trig_job' = [g \in Trigs |->
                          IF g \in Range(gs) /\ trig_valid[g] THEN TRUE
                          ELSE trig_job[g]]
        /\ active_workflows' =
             active_workflows \o SelectSeq(ws, LAMBDA w : ~ActivateRaises(w))
        /\ stopped' = stopped \ Range(ws)
        /\ rlast' = Record("start_all", "all",
                           IF failed THEN "ActivateError" ELSE "returned",
                           CallsOf("activate", gs))
  /\ UNCHANGED <<workflows, trig_valid, wf_context>>
  /\ UNCHANGED <<engineVars, prev, behaviour, triggerVars>>

\* WorkflowRunner.stop_all_workflows: stop_workflow on each key the active set
\* had when the call began
StopAllWorkflows ==
  /\ Idle
  /\ LET gs == TriggersOf(active_workflows)
     IN /\ trig_active' = [g \in Trigs |->
                             IF g \in Range(gs) THEN FALSE ELSE trig_active[g]]
        /\ trig_job' = [g \in Trigs |->
                          IF g \in Range(gs) THEN FALSE ELSE trig_job[g]]
        /\ rlast' = Record("stop_all", "all", "returned",
                           CallsOf("deactivate", gs))
  /\ active_workflows' = <<>>
  /\ stopped' = stopped \cup Range(active_workflows)
  /\ UNCHANGED <<workflows, trig_valid, wf_context>>
  /\ UNCHANGED <<engineVars, prev, behaviour, triggerVars>>

\* the scheduler thread of the time trigger g: it was started by an activate
\* that set self.job (time_trigger.py lines 68, 76-77) and loops while
\* is_active (line 93); the job comes due and _on_schedule fires the trigger,
\* whose callback calls run() of its workflow on that thread (followed step
\* by step for EngineWf, taken in one step for the workflow without actions)
LoopLive(g) == trig_active[g] /\ trig_job[g]

TriggerFires(g) ==
  /\ Idle
  /\ LoopLive(g)
  /\ IF WfOf(g) = EngineWf
     THEN /\ Enter(LoopThread, "e1")
          /\ UNCHANGED wf_context
     ELSE /\ wf_context' = [wf_context EXCEPT ![WfOf(g)] = SeedContext("e1")]
          /\ UNCHANGED engineVars
  /\ UNCHANGED <<workflows, active_workflows, trig_active, trig_job,
                 trig_valid, rlast, stopped>>
  /\ UNCHANGED <<prev, behaviour, triggerVars>>

\* ------------------------------------------------ trigger background loops
\* The triggers called directly.  g1 and g2 are TimeTriggers (a CronTrigger's
\* activate, deactivate and loop have the same structure), g3 is a polling
\* trigger (APIPollTrigger, DBTrigger), whose activate does not raise.
Polling == {"g3"}
LoopsOf(g) == loops[g].idle + loops[g].work

\* activate(): super().activate() sets is_active first (time_trigger.py:38,
\* api_trigger.py:57); a TimeTrigger then raises ValueError on a schedule
\* string it cannot parse (43, 71, 73), or schedules a job kept in self.job
\* (68); then a thread is started on the loop (76-77, 60-61).  Nothing tests
\* whether the trigger is active already.
Activate(g) ==
  /\ Idle
  /\ trig_active' = [trig_active EXCEPT ![g] = TRUE]
  /\ IF ~trig_valid[g]
     THEN UNCHANGED <<trig_job, jobs, loops>>
     ELSE /\ LoopsOf(g) < MaxLoops
          /\ loops' = [loops EXCEPT ![g].idle = @ + 1]
          /\ IF g \in Polling
             THEN UNCHANGED <<trig_job, jobs>>
             ELSE /\ jobs[g] < MaxLoops
                  /\ jobs' = [jobs EXCEPT ![g] = @ + 1]
                  /\ trig_job' = [trig_job EXCEPT ![g] = TRUE]
  /\ UNCHANGED <<workflows, active_workflows, trig_valid, wf_context, rlast,
                 stopped, callbacks, firing, invoked, fire_out>>
  /\ UNCHANGED <<engineVars, prev, behaviour>>

\* deactivate(): a TimeTrigger cancels self.job, the job of its latest
\* activate, when it is set (time_trigger.py:81-83) and clears is_active (85);
\* a polling trigger clears is_active and waits at most one second for its
\* latest thread (api_trigger.py:65-68), which sleeps `interval` seconds
\* between polls and up to 30 in a request: the call returns whatever the
\* threads are doing.
Deactivate(g) ==
  /\ Idle
  /\ trig_active' = [trig_active EXCEPT ![g] = FALSE]
  /\ IF trig_job[g]
     THEN /\ jobs' = [jobs EXCEPT ![g] = @ - 1]
          /\ trig_job' = [trig_job EXCEPT ![g] = FALSE]
     ELSE UNCHANGED <<trig_job, jobs>>
  /\ UNCHANGED <<workflows, active_workflows, trig_valid, wf_context, rlast,
                 stopped, callbacks, firing, invoked, fire_out, loops>>
  /\ UNCHANGED <<engineVars, prev, behaviour>>

\* `while self.is_active:` (time_trigger.py:93, api_trigger.py:72): a thread
\* of g between two iterations tests the flag and goes on, or ends
LoopCheck(g) ==
  /\ loops[g].idle > 0
  /\ loops' = [loops EXCEPT ![g] =
                 IF trig_active[g]
                 THEN [idle |-> @.idle - 1, work |-> @.work + 1]
                 ELSE [idle |-> @.idle - 1, work |-> @.work]]
  /\ UNCHANGED <<callbacks, firing, invoked, fire_out, jobs>>
  /\ UNCHANGED <<engineVars, prev, behaviour, runnerVars>>

\* what an exception raised in the body of the loop does to the thread: the
\* polling loops catch Exception (api_trigger.py:104-106, db_trigger.py) and
\* go on to the sleep; _run_scheduler (time_trigger.py:91-95) has no
\* try/except, the exception ends the thread
AfterRaise(g, l) ==
  IF g \in Polling THEN [idle |-> l.idle + 1, work |-> l.work - 1]
  ELSE [idle |-> l.idle, work |-> l.work - 1]

\* the body of one iteration, by a thread of g past the test: a poll, or
\* schedule.run_pending(), which runs the due jobs of the one default
\* scheduler (those of every trigger).  Nothing is due ("quiet"), or a fire
\* whose callbacks return ("fired"), or a fire out of which a callback raises
\* ("raised"); then the sleep.
LoopWork(g, out) ==
  /\ loops[g].work > 0
  /\ (g \notin Polling /\ out # "quiet") => \E h \in Trigs : jobs[h] > 0
  /\ loops' = [loops EXCEPT ![g] =
                 IF out = "raised" THEN AfterRaise(g, @)
                 ELSE [idle |-> @.idle + 1, work |-> @.work - 1]]
  /\ UNCHANGED <<callbacks, firing, invoked, fire_out, jobs>>
  /\ UNCHANGED <<engineVars, prev, behaviour, runnerVars>>

\* --------------------------------------------------- trigger-to-run protocol
\* Workflow.add_trigger registers the workflow's _on_trigger_fired on the
\* trigger (workflow.py:45).  "c1" is EngineWf._on_trigger_fired; "c2" is the
\* _on_trigger_fired of another workflow sharing the trigger, which returns
\* or raises as that workflow's run() does.
WfCallback == "c1"

\* the callback fire has called and is waiting for
InCallback == firing.active /\ Len(invoked) = firing.pos

\* fire, lines 47-48, reaching a callback of another workflow
FireOther(ok) ==
  /\ ~InCallback
  /\ FireInvoke(ok)
  /\ callbacks[firing.pos] # WfCallback

\* fire, line 48, reaching EngineWf._on_trigger_fired, which calls
\* self.run(event_data) (workflow.py:79) on the firing thread
FireRun ==
  /\ firing.active
  /\ ~InCallback
  /\ firing.pos <= Len(callbacks)
  /\ callbacks[firing.pos] = WfCallback
  /\ Enter(LoopThread, firing.ev)
  /\ invoked' = Append(invoked, [cb |-> WfCallback, ev |-> firing.ev])
  /\ UNCHANGED <<callbacks, firing, fire_out, loops, jobs>>
  /\ UNCHANGED <<prev, behaviour, runnerVars>>

\* that run() has ended: _on_trigger_fired returns, or run()'s exception
\* goes through it into fire
FireResume ==
  /\ InCallback
  /\ frames[LoopThread] = <<>>
  /\ LET n == AfterCallback(firing.pos, last[LoopThread] # "CircularError")
     IN /\ firing' = [firing EXCEPT !.active = n.active, !.pos = n.pos]
        /\ fire_out' = n.out
  /\ UNCHANGED <<callbacks, invoked, loops, jobs>>
  /\ UNCHANGED <<engineVars, prev, behaviour, runnerVars>>

\* ---------------------------------------------------------- specifications
\* One calling thread: assembly, run() calls and calls nested in execute
Next ==
  \/ \E a \in Acts : AddAction(a)
  \/ \E a, b \in Acts : AddDependency(a, b)
  \/ \E ev \in EventArgs : RunCall(MainThread, ev)
  \/ RunStep(MainThread)

Spec == Init /\ [][Next]_vars

\* The same, with WF on the steps of run(): a call that was made runs on,
\* and each execute ends (calls nested in it are bounded by MaxCalls)
LiveSpec == Spec /\ WF_vars(RunStep(MainThread))

\* Two threads calling run() on an assembled workflow (two triggers'
\* background threads firing): a2 depends on a1
ThreadsInit ==
  /\ actions = <<"a1", "a2">>
  /\ dependencies = [a \in Acts |-> IF a = "a2" THEN <<"a1">> ELSE <<>>]
  /\ status = [a \in Acts |-> "pending"]
  /\ result = [a \in Acts |-> "None"]
  /\ error = [a \in Acts |-> "None"]
  /\ context = <<>>
  /\ is_running = FALSE
  /\ frames = [t \in Threads |-> <<>>]
  /\ last = [t \in Threads |-> "none"]
  /\ execCount = [a \in Acts |-> 0]
  /\ raised = {}
  /\ calls = 0
  /\ behaviour = [a \in Acts |-> "any"]
  /\ prev = NoPrev(FALSE)
  /\ TriggerInit
  /\ RunnerInit

ThreadsNext ==
  \E t \in Threads :
    \/ \E ev \in EventArgs : RunCall(t, ev)
    \/ RunStep(t)

SpecThreads == ThreadsInit /\ [][ThreadsNext]_vars

\* An assembled workflow of three actions whose execute is deterministic (it
\* returns one fixed value, or always raises), run again and again: every
\* dependency graph with at most one dependency per action, self-edges and
\* cycles included
IdemInit ==
  /\ actions = <<"a1", "a2", "a3">>
  /\ dependencies \in [Acts -> {<<>>} \cup {<<b>> : b \in Acts}]
  /\ status = [a \in Acts |-> "pending"]
  /\ result = [a \in Acts |-> "None"]
  /\ error = [a \in Acts |-> "None"]
  /\ context = <<>>
  /\ is_running = FALSE
  /\ frames = [t \in Threads |-> <<>>]
  /\ last = [t \in Threads |-> "none"]
  /\ execCount = [a \in Acts |-> 0]
  /\ raised = {}
  /\ calls = 0
  /\ behaviour \in [Acts -> {"raise"} \cup Values]
  /\ prev = NoPrev(TRUE)
  /\ TriggerInit
  /\ RunnerInit

IdemNext ==
  \/ \E ev \in EventArgs : RunCall(MainThread, ev)
  \/ RunStep(MainThread)

SpecIdem == IdemInit /\ [][IdemNext]_vars

\* One trigger: callbacks are registered, the trigger is fired
TriggerNext ==
  \/ \E c \in Callbacks : RegisterCallback(c)
  \/ \E ev \in EventArgs : FireCall(ev)
  \/ \E ok \in BOOLEAN : FireInvoke(ok)
  \/ FireReturn

SpecTrigger == Init /\ [][TriggerNext]_vars

\* A runner and two constructed workflows: EngineWf with actions a1 and a2
\* (a2 depends on a1) and triggers g1, g2; the other without actions, with
\* trigger g3.  The execute of a1 returns v1, that of a2 raises; each
\* trigger's schedule string parses or does not.
RunnerSpecInit ==
  /\ actions = <<"a1", "a2">>
  /\ dependencies = [a \in Acts |-> IF a = "a2" THEN <<"a1">> ELSE <<>>]
  /\ status = [a \in Acts |-> "pending"]
  /\ result = [a \in Acts |-> "None"]
  /\ error = [a \in Acts |-> "None"]
  /\ context = <<>>
  /\ is_running = FALSE
  /\ frames = [t \in Threads |-> <<>>]
  /\ last = [t \in Threads |-> "none"]
  /\ execCount = [a \in Acts |-> 0]
  /\ raised = {}
  /\ calls = 0
  /\ behaviour = [a \in Acts |-> IF a = "a2" THEN "raise" ELSE "v1"]
  /\ prev = NoPrev(FALSE)
  /\ TriggerInit
  /\ workflows = <<>>
  /\ active_workflows = <<>>
  /\ trig_active = [g \in Trigs |-> FALSE]
  /\ trig_job = [g \in Trigs |-> FALSE]
  /\ trig_valid \in [Trigs -> BOOLEAN]
  /\ wf_context = [w \in Wids |-> <<>>]
  /\ rlast = Record("none", "none", "none", <<>>)
  /\ stopped = {}

RunnerNext ==
  \/ \E w \in Wids : RegisterWorkflow(w)
  \/ \E id \in Ids : UnregisterWorkflow(id)
  \/ \E id \in Ids : StartWorkflow(id)
  \/ \E id \in Ids : StopWorkflow(id)
  \/ \E id \in Ids, ev \in EventArgs : RunWorkflowNow(id, ev)
  \/ StartAllWorkflows
  \/ StopAllWorkflows
  \/ RunStep(MainThread)

SpecRunner == RunnerSpecInit /\ [][RunnerNext]_vars

\* The same, with the scheduler threads of the triggers: a trigger whose loop
\* is live fires, and the run() it starts is followed on that thread
FiresNext ==
  \/ RunnerNext
  \/ \E g \in Trigs : TriggerFires(g)
  \/ RunStep(LoopThread)

SpecFires == RunnerSpecInit /\ [][FiresNext]_vars

\* The triggers on their own: activate() and deactivate() called directly,
\* and the steps of the background threads
LoopInit == RunnerSpecInit /\ \A g \in Polling : trig_valid[g]

LoopNext ==
  \/ \E g \in Trigs : Activate(g)
  \/ \E g \in Trigs : Deactivate(g)
  \/ \E g \in Trigs : LoopCheck(g)
  \/ \E g \in Trigs, out \in {"quiet", "fired", "raised"} : LoopWork(g, out)

SpecLoop == LoopInit /\ [][LoopNext]_vars

\* A trigger shared by EngineWf and another workflow: add_trigger calls, fires
\* made on the trigger's thread and followed through the run() they call,
\* and run() calls made directly on the main thread.  EngineWf has the one
\* action a1, which depends on nothing or on itself.
ProtocolInit ==
  /\ actions = <<"a1">>
  /\ dependencies \in {[a \in Acts |-> <<>>],
                       [a \in Acts |-> IF a = "a1" THEN <<"a1">> ELSE <<>>]}
  /\ status = [a \in Acts |-> "pending"]
  /\ result = [a \in Acts |-> "None"]
  /\ error = [a \in Acts |-> "None"]
  /\ context = <<>>
  /\ is_running = FALSE
  /\ frames = [t \in Threads |-> <<>>]
  /\ last = [t \in Threads |-> "none"]
  /\ execCount = [a \in Acts |-> 0]
  /\ raised = {}
  /\ calls = 0
  /\ behaviour = [a \in Acts |-> "v1"]
  /\ prev = NoPrev(FALSE)
  /\ TriggerInit
  /\ RunnerInit

ProtocolNext ==
  \/ \E c \in Callbacks : RegisterCallback(c)
  \/ \E ev \in EventArgs : FireCall(ev)
  \/ \E ok \in BOOLEAN : FireOther(ok)
  \/ FireRun
  \/ FireResume
  \/ FireReturn
  \/ \E ev \in EventArgs : RunCall(MainThread, ev)
  \/ RunStep(MainThread)
  \/ RunStep(LoopThread)

SpecProtocol == ProtocolInit /\ [][ProtocolNext]_vars

\* ------------------------------------------------------- graph vocabulary
RECURSIVE Reach(_, _)
Reach(S, n) ==
  IF n = 0 THEN S ELSE Reach(S \cup UNION {Deps(x) : x \in S}, n - 1)
\* everything a depends on, directly or through other actions
TransDeps(a) == Reach(Deps(a), Cardinality(Acts))
Acyclic == \A a \in Acts : a \notin TransDeps(a)
\* a lies on a cycle through at least one other action
OnCycle(a) == \E b \in Acts \ {a} : b \in TransDeps(a) /\ a \in TransDeps(b)
HasCycle == \E a \in Acts : OnCycle(a)

\* thread t has a run() that passed the guard and set is_running (line 109)
InPass(t) ==
  /\ frames[t] # <<>>
  /\ frames[t][1].pc \in {"reset", "loop", "round", "execute"}
\* ... and has reset the actions (line 117)
InLoop(t) ==
  /\ frames[t] # <<>>
  /\ frames[t][1].pc \in {"loop", "round", "execute"}
\* the step in which thread t's outermost run(), which passed the guard, ends
PassEnds(t) ==
  /\ Len(frames[t]) = 1
  /\ frames[t][1].pc = "loop"
  /\ frames'[t] = <<>>
\* the step in which any run() call of thread t ends
CallEnds(t) == Len(frames'[t]) < Len(frames[t])
Ended(t) == frames[t] = <<>> /\ last[t] \in {"returned", "CircularError"}

\* ------------------------------------------------------------------ claims

\* C1: dependency ordering.  While a pass of run() is under way, every action
\* whose execute has been invoked in this pass (the one executing now
\* included) has every one of its dependencies in status "completed"; so an
\* action with a dependency that is not completed in the pass is not executed.
C1_DependencyOrder ==
  InLoop(MainThread) =>
    \A a \in Acts :
      execCount[a] > 0 => \A b \in Deps(a) : status[b] = "completed"

\* an action with a dependency is executing
C1_Witness ==
  /\ InLoop(MainThread)
  /\ Top(MainThread).pc = "execute"
  /\ Deps(Top(MainThread).cur) # {}
  /\ \E b \in Registered : status[b] = "failed"

\* C2: exactly-once execution.  No action's execute is invoked more than once
\* in a pass; and when the graph is acyclic and no execute raised, the pass
\* ends by returning, with every registered action executed once and completed.
C2_ExactlyOnce ==
  /\ [](\A a \in Acts : execCount[a] <= 1)
  /\ [][(PassEnds(MainThread) /\ Acyclic /\ raised = {}) =>
          /\ last'[MainThread] = "returned"
          /\ \A a \in Registered :
               execCount'[a] = 1 /\ status'[a] = "completed"]_vars

\* a chain of three actions has run to the end
C2_Witness ==
  /\ Ended(MainThread)
  /\ Registered = Acts
  /\ Acyclic
  /\ "a1" \in Deps("a2") /\ "a2" \in Deps("a3")
  /\ \A a \in Acts : execCount[a] = 1 /\ status[a] = "completed"

\* C3: with an acyclic graph, run() returns the Context and raises nothing,
\* whichever actions fail.
C3_NoExceptionEscapes ==
  Acyclic => last[MainThread] # "CircularError"

\* the statuses the failure-isolation claims ask for, given the actions
\* whose execute raised
FailedAndDependents ==
  \A a \in raised :
    /\ status[a] = "failed"
    /\ \A d \in Registered :
         a \in TransDeps(d) => status[d] = "pending" /\ execCount[d] = 0
OthersCompleted ==
  \A x \in Registered :
    (x \notin raised /\ TransDeps(x) \cap raised = {}) => status[x] = "completed"

\* C4 as stated: when a pass in which some execute raised ends, the failed
\* actions are "failed", their dependents are "pending" and were not
\* executed, and every other action is "completed", for every graph.
C4_FailureIsolation_AnyGraph ==
  [][(PassEnds(MainThread) /\ raised # {}) =>
       (FailedAndDependents' /\ OthersCompleted')]_vars

\* C4 amended: the same, for an acyclic graph (no cycle, no self-dependency).
C4_FailureIsolation ==
  [][(PassEnds(MainThread) /\ raised # {} /\ Acyclic) =>
       (FailedAndDependents' /\ OthersCompleted')]_vars

\* a1 failed, a2 waits for it, a3 is independent and completed
C4_Witness ==
  /\ Ended(MainThread)
  /\ Acyclic
  /\ raised = {"a1"} /\ status["a1"] = "failed"
  /\ "a1" \in Deps("a2") /\ status["a2"] = "pending"
  /\ "a3" \in Registered /\ Deps("a3") = {} /\ status["a3"] = "completed"

\* C5: at most one thread has a run() past the re-entrancy guard.
PastGuard(t) == \E i \in DOMAIN frames[t] : frames[t][i].pc # "guard"
C5_OneRunAtATime == Cardinality({t \in Threads : PastGuard(t)}) <= 1

\* C6: with a cycle among two or more actions, no action on the cycle is
\* executed, a run() that ends ends with the circular-dependency error, and
\* every run() that was called does end.
C6_CycleDetected ==
  /\ [](InLoop(MainThread) =>
          \A a \in Acts : OnCycle(a) => execCount[a] = 0 /\ status[a] = "pending")
  /\ [][(PassEnds(MainThread) /\ HasCycle) =>
          last'[MainThread] = "CircularError"]_vars
  /\ (HasCycle /\ frames[MainThread] # <<>>)
       ~> (frames[MainThread] = <<>> /\ last[MainThread] = "CircularError")

\* a2 and a3 depend on each other; a1 ran
C6_Witness ==
  /\ Ended(MainThread)
  /\ last[MainThread] = "CircularError"
  /\ OnCycle("a2") /\ OnCycle("a3")
  /\ status["a1"] = "completed"

\* C7: a run() call that reaches the guard while is_running is true returns
\* (the Context, line 107) in its next step, and that step changes no action's
\* status, result or error, executes nothing, leaves the Context as it is and
\* leaves is_running true.
C7_GuardFrame ==
  [][\A t \in Threads :
       (frames[t] # <<>> /\ Top(t).pc = "guard" /\ is_running) =>
         /\ frames'[t] = SubSeq(frames[t], 1, Len(frames[t]) - 1)
         /\ last'[t] = "rejected"
         /\ is_running'
         /\ UNCHANGED <<actions, dependencies, status, result, error,
                        context, execCount, raised>>]_vars

\* a call made from inside an execute has returned
C7_Witness ==
  /\ last[MainThread] = "rejected"
  /\ Len(frames[MainThread]) = 1
  /\ Top(MainThread).pc = "execute"
  /\ is_running

\* C8: is_running is true from line 109 on while a run() that passed the
\* guard is under way, and false once it has ended, by return or by the
\* circular-dependency error.
C8_RunningFlag ==
  /\ InPass(MainThread) => is_running
  /\ frames[MainThread] = <<>> => ~is_running

\* a run() has ended with the circular-dependency error
C8_Witness ==
  /\ Ended(MainThread)
  /\ last[MainThread] = "CircularError"
  /\ ~is_running

\* C9: when a run() call ends, the Context's keys are "event_data" and the
\* ids of the completed actions, each holding that action's result.
ContextExact ==
  /\ DOMAIN context =
       {"event_data"} \cup {a \in Registered : status[a] = "completed"}
  /\ \A a \in Registered : status[a] = "completed" => context[a] = result[a]
C9_ContextAtEnd ==
  [][\A t \in Threads : CallEnds(t) => ContextExact']_vars

\* a second run() has ended in which one action failed and one completed
C9_Witness ==
  /\ Ended(MainThread)
  /\ calls = 2
  /\ \E a, b \in Registered : status[a] = "failed" /\ status[b] = "completed"
  /\ ContextExact

\* C10: in a pass, as long as no action has been executed, every registered
\* action is "pending" with no result and no error.
C10_ResetBeforeExecution ==
  (InLoop(MainThread) /\ \A a \in Acts : execCount[a] = 0) =>
    \A a \in Registered :
      status[a] = "pending" /\ result[a] = "None" /\ error[a] = "None"

\* the second run() starts after one that raised the circular-dependency error
C10_Witness ==
  /\ InLoop(MainThread)
  /\ \A a \in Acts : execCount[a] = 0
  /\ calls = 2
  /\ last[MainThread] = "CircularError"
  /\ Cardinality(Registered) >= 2

\* C11: run() called twice in sequence with the same event_data on a workflow
\* whose actions are deterministic ends both times with the same action
\* statuses and the same Context (same keys, same values).
C11_Idempotent ==
  [][PassEnds(MainThread) /\ prev.ended
     /\ context["event_data"] = prev.context["event_data"]
     => status' = prev.status /\ context' = prev.context]_vars

\* a first pass has ended and a second one has come to its exit check with
\* every action executed again: a1 completed, another action failed
C11_Witness ==
  /\ prev.ended
  /\ Len(frames[MainThread]) = 1
  /\ frames[MainThread][1].pc = "loop"
  /\ execCount["a1"] = 1
  /\ status["a1"] = "completed"
  /\ \E b \in Acts : status[b] = "failed" /\ execCount[b] = 1
  /\ context = prev.context
  /\ "a1" \in DOMAIN context

\* the Context entries of the pass, other than event_data
ActionEntries(ctx) == DOMAIN ctx \ {"event_data"}

\* C12 as stated: when no action declares a dependency, the pass executes
\* every one of the N registered actions exactly once and returns a Context
\* with N action entries, one per action id.
C12_AllEntries ==
  [][(PassEnds(MainThread) /\ TotalDeps = 0) =>
       /\ last'[MainThread] = "returned"
       /\ \A a \in Registered : execCount'[a] = 1
       /\ ActionEntries(context') = Registered]_vars

\* C12: when no action declares a dependency, the pass executes every one of
\* the N registered actions exactly once and returns a Context with one action
\* entry per action whose execute returned, holding the value it returned (N
\* entries when no execute raised, none for an action whose execute raised).
C12_NoDependencies ==
  [][(PassEnds(MainThread) /\ TotalDeps = 0) =>
       /\ last'[MainThread] = "returned"
       /\ \A a \in Registered : execCount'[a] = 1
       /\ ActionEntries(context') = Registered \ raised'
       /\ \A a \in ActionEntries(context') : context'[a] = result'[a]
       /\ (raised' = {} => Cardinality(ActionEntries(context')) = Len(actions'))]_vars

\* a pass over three actions without dependencies has returned; the execute
\* of one of them raised
C12_Witness ==
  /\ Ended(MainThread)
  /\ last[MainThread] = "returned"
  /\ Registered = Acts
  /\ TotalDeps = 0
  /\ \A a \in Acts : execCount[a] = 1
  /\ Cardinality(raised) = 1
  /\ Cardinality(ActionEntries(context)) = 2

\* the status steps BaseAction.run takes: run lines 72, 76 and 79
Forward(a) ==
  \/ status'[a] = status[a]
  \/ <<status[a], status'[a]>> \in
       {<<"pending", "running">>, <<"running", "completed">>,
        <<"running", "failed">>}

\* C13: from the reset of a pass of run() to its end, the status of every
\* action stays as it is or moves pending -> running, running -> completed or
\* running -> failed, so none goes back to "pending" or "running" once
\* completed or failed; and no action is "running" when the pass ends.
C13_StatusForward ==
  [][/\ InLoop(MainThread) => \A a \in Acts : Forward(a)
     /\ PassEnds(MainThread) => \A a \in Acts : status'[a] # "running"]_vars

\* a pass has ended in which one action completed, one failed and one never
\* left "pending"
C13_Witness ==
  /\ Ended(MainThread)
  /\ \E a, b, c \in Registered :
       /\ status[a] = "completed" /\ execCount[a] = 1
       /\ status[b] = "failed" /\ execCount[b] = 1
       /\ status[c] = "pending" /\ execCount[c] = 0

\* C15: BaseAction.run has set the status "running" while execute is under
\* way; when execute returns a value the status becomes "completed", result
\* holds the value and run returns it (the workflow stores what run returned
\* under the action's id); when execute raises, the status becomes "failed",
\* error holds the exception, result is unchanged and the exception is raised
\* to the caller (the workflow stores nothing).
C15_RunWrapper ==
  /\ [](\A i \in 1..Len(frames[MainThread]) :
          frames[MainThread][i].pc = "execute" =>
            status[frames[MainThread][i].cur] = "running")
  /\ [][\A a \in Acts :
          (status[a] = "running" /\ status'[a] # "running") =>
            \/ /\ status'[a] = "completed"
               /\ a \notin raised'
               /\ result'[a] \in Values
               /\ error'[a] = error[a]
               /\ a \in DOMAIN context' /\ context'[a] = result'[a]
            \/ /\ status'[a] = "failed"
               /\ a \in raised'
               /\ error'[a] = "Exception"
               /\ result'[a] = result[a]
               /\ context' = context]_vars

\* in one pass the execute of one action has returned v2 and the execute of
\* another has raised
C15_Witness ==
  /\ InLoop(MainThread)
  /\ \E a, b \in Registered :
       /\ status[a] = "completed" /\ result[a] = "v2" /\ context[a] = "v2"
       /\ status[b] = "failed" /\ error[b] = "Exception" /\ b \in raised
       /\ result[b] = "None" /\ b \notin DOMAIN context

\* C16: add_dependency(a, b) with a or b not registered raises and leaves
\* every dependency list as it was; with both registered it appends b to the
\* dependency list of a and raises nothing, whatever the edges already there:
\* between assembly calls every edge between registered actions, a self-edge
\* or one that closes a cycle included, can be added.
C16_AddDependency ==
  /\ [][\A a, b \in Acts :
          AddDependency(a, b) =>
            IF a \in Registered /\ b \in Registered
            THEN /\ dependencies' = [dependencies EXCEPT ![a] = Append(@, b)]
                 /\ last' = last
            ELSE /\ dependencies' = dependencies
                 /\ last'[MainThread] = "DependencyError"]_vars
  /\ []((Idle /\ TotalDeps < MaxDeps) =>
          \A a, b \in Registered :
            ENABLED (/\ AddDependency(a, b)
                     /\ dependencies' = [dependencies EXCEPT ![a] = Append(@, b)]))

\* a call naming an action not yet registered has raised; later calls made
\* a1 depend on itself and a2 and a3 depend on each other
C16_Witness ==
  /\ Idle
  /\ calls = 0
  /\ last[MainThread] = "DependencyError"
  /\ "a1" \in Deps("a1")
  /\ "a2" \in Deps("a3") /\ "a3" \in Deps("a2")
  /\ HasCycle

\* the step in which a fire() call ends, by returning or by an exception
FireEnds == firing.active /\ ~firing'.active

\* C14: when a fire(event_data) call ends it has invoked every registered
\* callback exactly once, in registration order, each with the same
\* event_data, whatever an earlier callback did.
C14_EveryCallbackInvoked ==
  [][FireEnds =>
       /\ Len(invoked') = Len(callbacks)
       /\ \A i \in 1..Len(callbacks) :
            invoked'[i] = [cb |-> callbacks[i], ev |-> firing.ev]]_vars

\* everything but the record of the runner call
AllButRecord ==
  <<engineVars, workflows, active_workflows, trig_active, trig_job,
    trig_valid, wf_context>>

\* C17: run_workflow_now on an id that is not in the registry raises the
\* not-found error and changes nothing: the registry, the active set, each
\* workflow's Context, is_running and action statuses (and everything else)
\* are as before the call.
C17_RunNowUnknown ==
  [][\A id \in Ids, ev \in EventArgs :
       (RunWorkflowNow(id, ev) /\ id \notin Range(workflows)) =>
         /\ rlast'.out = "NotFound"
         /\ UNCHANGED AllButRecord]_vars

\* the workflow with the actions has been run and unregistered; a call of
\* run_workflow_now with its id has raised, the other workflow being active
C17_Witness ==
  /\ rlast = Record("run_now", EngineWf, "NotFound", <<>>)
  /\ status["a1"] = "completed"
  /\ "a1" \in DOMAIN context
  /\ workflows = <<"w2">>
  /\ active_workflows = <<"w2">>

\* C18: unregister_workflow on an active workflow calls deactivate on each of
\* its triggers, in order, and the id leaves the active set and the registry;
\* after any unregister call the id is in neither.
C18_UnregisterActive ==
  [][\A id \in Ids :
       UnregisterWorkflow(id) =>
         /\ id \notin Range(workflows')
         /\ id \notin Range(active_workflows')
         /\ id \in Range(active_workflows) =>
              /\ rlast'.calls = CallsOf("deactivate", WfTriggers(id))
              /\ \A g \in Range(WfTriggers(id)) :
                   ~trig_active'[g] /\ ~trig_job'[g]]_vars

\* the active workflow with two triggers has been unregistered; the other
\* workflow is still registered and active
C18_Witness ==
  /\ rlast.op = "unregister" /\ rlast.id = "w1"
  /\ Len(rlast.calls) = 2
  /\ workflows = <<"w2">>
  /\ active_workflows = <<"w2">>
  /\ ~trig_active["g1"] /\ ~trig_active["g2"] /\ trig_active["g3"]

\* C19 as stated: start_workflow on a registered id calls activate on every
\* trigger of the workflow and the id is in the active set afterwards; on an
\* unknown id it raises not-found and leaves registry and active set as they
\* were.
C19_StartActivatesAll ==
  [][\A id \in Ids :
       StartWorkflow(id) =>
         IF id \in Range(workflows)
         THEN /\ rlast'.calls = CallsOf("activate", WfTriggers(id))
              /\ id \in Range(active_workflows')
         ELSE /\ rlast'.out = "NotFound"
              /\ UNCHANGED <<workflows, active_workflows>>]_vars

\* C19: start_workflow on a registered id calls activate on the triggers of
\* the workflow in order.  When no activate raises, every trigger has been
\* activated and the id is in the active set afterwards.  When the activate
\* of a trigger raises, start raises: the triggers after that one are not
\* called, the id is not placed in the active set, and the triggers called
\* stay flagged active.  On an unknown id start raises not-found, calls no
\* trigger and leaves registry and active set as they were.
C19_Start ==
  [][\A id \in Ids :
       StartWorkflow(id) =>
         IF id \notin Range(workflows)
         THEN /\ rlast'.out = "NotFound"
              /\ UNCHANGED AllButRecord
         ELSE IF \A g \in Range(WfTriggers(id)) : trig_valid[g]
         THEN /\ rlast'.out = "returned"
              /\ rlast'.calls = CallsOf("activate", WfTriggers(id))
              /\ \A g \in Range(WfTriggers(id)) : trig_active'[g] /\ trig_job'[g]
              /\ id \in Range(active_workflows')
              /\ Range(active_workflows') = Range(active_workflows) \cup {id}
              /\ workflows' = workflows
         ELSE /\ rlast'.out = "ActivateError"
              /\ \E n \in 1..Len(WfTriggers(id)) :
                   /\ ~trig_valid[WfTriggers(id)[n]]
                   /\ rlast'.calls = CallsOf("activate", SubSeq(WfTriggers(id), 1, n))
                   /\ \A i \in 1..n : trig_active'[WfTriggers(id)[i]]
                   /\ \A i \in (n + 1)..Len(WfTriggers(id)) :
                        trig_active'[WfTriggers(id)[i]] = trig_active[WfTriggers(id)[i]]
              /\ UNCHANGED <<workflows, active_workflows>>]_vars

\* the workflow with two triggers has been started and is active with both
\* triggers activated; an earlier start of the other workflow raised in the
\* activate of its trigger
C19_Witness ==
  /\ rlast = Record("start", "w1", "returned", CallsOf("activate", <<"g1", "g2">>))
  /\ active_workflows = <<"w1">>
  /\ workflows = <<"w2", "w1">>
  /\ trig_active["g1"] /\ trig_active["g2"]
  /\ ~trig_valid["g3"] /\ trig_active["g3"]

\* C20: stop_workflow on an active id removes it from the active set and
\* calls deactivate on every trigger of the workflow; on an id that is not in
\* the active set it raises nothing, calls no deactivate and changes nothing.
C20_Stop ==
  [][\A id \in Ids :
       StopWorkflow(id) =>
         /\ rlast'.out = "returned"
         /\ IF id \in Range(active_workflows)
            THEN /\ id \notin Range(active_workflows')
                 /\ Range(active_workflows') = Range(active_workflows) \ {id}
                 /\ rlast'.calls = CallsOf("deactivate", WfTriggers(id))
                 /\ \A g \in Range(WfTriggers(id)) :
                      ~trig_active'[g] /\ ~trig_job'[g]
            ELSE /\ rlast'.calls = <<>>
                 /\ UNCHANGED AllButRecord]_vars

\* the active workflow with two triggers has been stopped: it is registered,
\* not active, its triggers are inactive; the other workflow stays active
C20_Witness ==
  /\ rlast = Record("stop", "w1", "returned", CallsOf("deactivate", <<"g1", "g2">>))
  /\ "w1" \in Range(workflows)
  /\ active_workflows = <<"w2">>
  /\ ~trig_active["g1"] /\ ~trig_active["g2"] /\ trig_active["g3"]
  /\ ~trig_job["g1"] /\ ~trig_job["g2"] /\ trig_job["g3"]

\* C26: a pass of run() over N registered actions evaluates the ready set at
\* most N + 1 times (each evaluation but the last finds an action to take out
\* of "pending"), whatever the graph and whichever executes raise; and every
\* run() call that was made ends, by returning or by raising.
C26_TerminationBound ==
  /\ [](\A i \in 1..Len(frames[MainThread]) :
          LET f == frames[MainThread][i]
              moved == Cardinality({a \in Registered : status[a] # "pending"})
          IN /\ f.rounds <= Len(actions)
             /\ f.pc = "loop" => f.rounds <= moved
             /\ f.pc \in {"round", "execute"} => f.rounds <= moved + 1)
  /\ (frames[MainThread] # <<>>) ~> Ended(MainThread)

\* a pass over a chain of three actions is at its fourth evaluation of the
\* ready set, the one that ends it
C26_Witness ==
  /\ Len(frames[MainThread]) = 1
  /\ frames[MainThread][1].pc = "loop"
  /\ frames[MainThread][1].rounds = 3
  /\ Len(actions) = 3
  /\ \A a \in Acts : status[a] = "completed"

\* the place of a registered action in the order of the add_action calls
Pos(a) == CHOOSE i \in 1..Len(actions) : actions[i] = a
InInsertionOrder(q) ==
  \A i, j \in 1..Len(q) : i < j => Pos(q[i]) < Pos(q[j])

\* C24: the actions of a round are executed in add_action order (the action
\* taken next is the first of the round's list, which is in insertion order
\* and precedes the rest), and a pass repeated on the same assembly with the
\* same event data and the same execute outcomes executes the same actions in
\* the same order, each seeing the same Context.
C24_Deterministic ==
  /\ [](\A i \in 1..Len(frames[MainThread]) :
          LET f == frames[MainThread][i]
          IN /\ InInsertionOrder(f.ready)
             /\ (f.pc = "execute" /\ f.ready # <<>>) =>
                  Pos(f.cur) < Pos(Head(f.ready)))
  /\ [][(PassEnds(MainThread) /\ prev.ended
         /\ context["event_data"] = prev.context["event_data"])
        => prev.log = prev.order]_vars

\* the second pass of a workflow in which a1 and a3 are ready in the first
\* round and a2 depends on a3 has executed a1, a3 and a2, as the first did
C24_Witness ==
  /\ prev.ended
  /\ Len(frames[MainThread]) = 1
  /\ frames[MainThread][1].pc = "loop"
  /\ Deps("a2") = {"a3"} /\ Deps("a1") = {} /\ Deps("a3") = {}
  /\ Len(prev.log) = 3
  /\ prev.log[1].a = "a1" /\ prev.log[2].a = "a3" /\ prev.log[3].a = "a2"
  /\ prev.log = prev.order
  /\ "a3" \in DOMAIN prev.log[3].sees

\* C21: once stop_workflow(id) has returned and until start_workflow(id) is
\* called again, no trigger of that workflow starts a run() of it.
C21_NoRunAfterStop ==
  [][\A g \in Trigs : TriggerFires(g) => WfOf(g) \notin stopped]_vars

\* C28: a workflow that is not in the active set has no trigger with
\* is_active true.
C28_InactiveMeansNoActiveTrigger ==
  \A w \in Wids :
    w \notin Range(active_workflows) =>
      \A g \in Range(WfTriggers(w)) : ~trig_active[g]

\* C30: every id in the active set is in the registry (both dicts hold each
\* key once, and the object stored under an id is the workflow that has that
\* id, in both).
C30_ActiveInRegistry ==
  /\ Range(active_workflows) \subseteq Range(workflows)
  /\ Cardinality(Range(active_workflows)) = Len(active_workflows)
  /\ Cardinality(Range(workflows)) = Len(workflows)

\* start_all_workflows has started both registered workflows, activating
\* their three triggers
C30_Witness ==
  /\ rlast.op = "start_all" /\ rlast.out = "returned"
  /\ Len(rlast.calls) = 3
  /\ workflows = <<"w2", "w1">>
  /\ active_workflows = <<"w2", "w1">>
  /\ stopped = {}

\* C29: failed activation.  When activate() of a time trigger raises on a
\* schedule string it cannot parse, the trigger is left with is_active false,
\* no job and no thread.
C29_FailedActivate ==
  [][\A g \in Trigs :
       (Activate(g) /\ ~trig_valid[g]) =>
         /\ ~trig_active'[g]
         /\ ~trig_job'[g] /\ jobs'[g] = jobs[g]
         /\ LoopsOf(g)' = 0]_vars

\* C23: an exception in the loop.  When the body of a background loop raises
\* (a callback raising during fire included), the exception is caught inside
\* the loop: the thread is still there and goes on to its next iteration.
C23_LoopSurvives ==
  [][\A g \in Trigs :
       LoopWork(g, "raised") =>
         /\ LoopsOf(g)' = LoopsOf(g)
         /\ loops'[g].idle = loops[g].idle + 1]_vars

\* C27: single background loop.  Whatever activate() and deactivate() calls
\* were made on a trigger, at most one background thread runs its loop.
C27_OneLoop == \A g \in Trigs : LoopsOf(g) <= 1

\* C22: deactivation.  deactivate() raises nothing and, when it has returned,
\* the trigger is inactive with no background mechanism left: no job of it
\* is in the scheduler, and no thread of it is on its way to a further poll
\* or schedule check (a thread between two iterations ends at its next test
\* of is_active).
C22_DeactivateStops ==
  [][\A g \in Trigs :
       Deactivate(g) =>
         /\ ~trig_active'[g]
         /\ ~trig_job'[g] /\ jobs'[g] = 0
         /\ loops'[g].work = 0]_vars

\* C25: trigger-to-run protocol.  Once add_trigger has registered the
\* workflow on a trigger, every fire(event_data) of the trigger has called
\* the workflow's run with the fired data when it ends; a run() so called
\* that passes the guard seeds the Context with exactly the fired data (the
\* empty mapping when there is none); and one called while the workflow is
\* running is rejected at the guard, starting no second pass.
C25_FireRuns ==
  [][/\ (FireEnds /\ WfCallback \in Range(callbacks)) =>
          \E i \in 1..Len(invoked') :
            invoked'[i] = [cb |-> WfCallback, ev |-> firing.ev]
     /\ Begin(LoopThread) =>
          context' = [k \in {"event_data"} |-> firing.ev]
     /\ (Guard(LoopThread) /\ is_running) =>
          /\ frames'[LoopThread] = <<>>
          /\ last'[LoopThread] = "rejected"
          /\ UNCHANGED <<status, context, is_running>>]_vars

TypeOK ==
  /\ Registered \subseteq Acts
  /\ is_running \in BOOLEAN
  /\ \A a \in Acts : status[a] \in {"pending", "running", "completed", "failed"}
  /\ \A a \in Acts : Deps(a) \subseteq Registered
  /\ DOMAIN context \subseteq {"event_data"} \cup Acts
====
